---- MODULE Spec2Model ----
(***************************************************************************)
(* Model of the Aspect composer (Lhacker/aspectjs).                        *)
(*                                                                         *)
(* The repository holds two variants of the same class:                    *)
(*   "aspect"  : src/aspect.js                                             *)
(*   "part000" : src/unnamed/part_000                                      *)
(* They differ in target() (guard against a second target), asyncTarget()  *)
(* (how the arguments are forwarded) and in the closure returned by        *)
(* getExecutableFunction() (try/catch around the before loop, and whether  *)
(* the async flag is read from `this` or from `self`).  The variable       *)
(* `variant` fixes, for a whole behaviour, which file is loaded.           *)
(*                                                                         *)
(* JavaScript is single threaded: every public method, and every timer     *)
(* callback, runs to completion, so each is one action.  The variables     *)
(* op, arg, recv, raised, calls, result, deferred describe the outcome of  *)
(* the most recent operation as its caller observes it.                    *)
(***************************************************************************)
EXTENDS Integers, Sequences, FiniteSets, TLC

\* ------------------------------------------------------------------ bounds
\* at most MaxFuncs before/after functions are registered in total
MaxFuncs == 2
\* at most MaxTimers deferred callbacks are pending at a time
MaxTimers == 1

\* ------------------------------------------------------------------ values
Variants == {"aspect", "part000"}

\* user functions handed to the registration methods: f returns, boom throws
Funcs == {"f", "boom"}
Throwing == {"boom"}
\* a first argument that is not a function (a string, undefined, ...)
NotFn == "notfn"
\* the Arguments object that src/aspect.js asyncTarget hands to target()
ArgumentsObject == "arguments"

\* the (arguments[0], arguments[1:]) pairs the registration methods are called with
Inputs ==
  { <<"f", <<>>>>, <<"f", <<1>>>>, <<"boom", <<>>>>, <<NotFn, <<1>>>> }

\* receivers the executable closure can be called on: execute() calls it as a
\* plain function (this = the global object); `a.run = a.getExecutableFunction();
\* a.run()` calls it on the Aspect itself
Receivers == {"global", "self"}

\* null, as stored in _targetFunc by the constructor
Null == [func |-> "null", params |-> <<>>, ensured |-> FALSE]

\* null / no value, as a result of a call
NullResult == [of |-> "null", with |-> <<>>]

NoError == [type |-> "none", by |-> Null]
\* `null.apply()` : TypeError raised by the engine
TypeError == [type |-> "TypeError", by |-> Null]
\* new Error("Target function is already set.")
AlreadySetError == [type |-> "TargetAlreadySet", by |-> Null]
\* the error a user function throws (one error object per throwing call)
Thrown(c) == [type |-> "thrown", by |-> c]

\* ------------------------------------------------------------------ helpers
_isFunction(f) == f \in Funcs

_FuncData(func, params, ensureExecute) ==
  [func |-> func, params |-> params, ensured |-> ensureExecute]

isEnsured(c) == c.ensured

\* _FuncData.prototype.apply: this._func.apply(null, this._params)
apply(c) ==
  IF c.func \in Throwing
    THEN [err |-> Thrown(c), value |-> NullResult]
    ELSE [err |-> NoError, value |-> [of |-> c.func, with |-> c.params]]

Entry(phase, c) == [phase |-> phase, call |-> c]

\* `for (i = 0; i < l; i++) fs[i].apply();` : stops at the first throw
RECURSIVE applyAll(_, _)
applyAll(fs, phase) ==
  IF fs = <<>> THEN [calls |-> <<>>, err |-> NoError]
  ELSE LET c == Head(fs)
           a == apply(c)
       IN IF a.err # NoError
            THEN [calls |-> <<Entry(phase, c)>>, err |-> a.err]
            ELSE LET rest == applyAll(Tail(fs), phase)
                 IN [calls |-> <<Entry(phase, c)>> \o rest.calls, err |-> rest.err]

RECURSIVE splitLoop(_, _)
splitLoop(funcs, fsTuple) ==
  IF funcs = <<>> THEN fsTuple
  ELSE LET c == Head(funcs)
       IN IF isEnsured(c)
            THEN splitLoop(Tail(funcs), <<Append(fsTuple[1], c), fsTuple[2]>>)
            ELSE splitLoop(Tail(funcs), <<fsTuple[1], Append(fsTuple[2], c)>>)

\* mutant: every function lands in the normal group
splitAllNormal(funcs) == << <<>>, funcs >>

\* tuple[1] = ensured funcs, tuple[2] = normal funcs (fsTuple[0], fsTuple[1] in JS)
_splitFuncsEnsuredOrNot(funcs) == splitLoop(funcs, << <<>>, <<>> >>)

\* ------------------------------------------------------------------ state
VARIABLES
  variant,        \* which file is loaded
  _beforeFuncs,   \* this._beforeFuncs
  _targetFunc,    \* this._targetFunc
  _asyncTarget,   \* this._asyncTarget
  _afterFuncs,    \* this._afterFuncs
  timers,         \* callbacks handed to window.setTimeout(f, 0), not yet run;
                  \* each holds the afterFuncsTuple its closure captured
  targetBy,       \* which method stored the current _targetFunc
  exe,            \* the closure last returned by getExecutableFunction and
                  \* kept by the caller: the list lengths at its creation
  op,             \* the most recent operation
  arg,            \* its (arguments[0], arguments[1:]) input, if it has one
  recv,           \* the receiver the executable was called on
  raised,         \* the error it threw to its caller, or NoError
  calls,          \* the user functions it invoked, in order
  result,         \* the value it returned
  deferred        \* whether it handed a callback to setTimeout

composer == <<_beforeFuncs, _targetFunc, _asyncTarget, _afterFuncs>>
outcome == <<op, arg, recv, raised, calls, result, deferred>>
vars == <<variant, composer, timers, targetBy, exe, outcome>>

NoArg == <<NotFn, <<>>>>

\* no closure kept
NoExe == [nb |-> -1, na |-> -1]

\* the closure getExecutableFunction would return now
ExeNow == [nb |-> Len(_beforeFuncs), na |-> Len(_afterFuncs)]

\* ------------------------------------------------------------------ engine
\* mutant: the after functions run although the target threw
executeAfterAnyway(tf, afs, aefs) ==
  LET t == IF tf = Null THEN [err |-> TypeError, value |-> NullResult] ELSE apply(tf)
      tcalls == IF tf = Null THEN <<>> ELSE <<Entry("target", tf)>>
      a == applyAll(afs, "after")
      e == applyAll(aefs, "after")
      tryErr == IF t.err # NoError THEN t.err ELSE a.err
  IN [calls |-> tcalls \o a.calls \o e.calls,
      err |-> IF e.err # NoError THEN e.err ELSE tryErr,
      r |-> IF e.err = NoError /\ tryErr = NoError THEN t.value ELSE NullResult]

\* mutant: an error of the try block survives an error of the finally block
executeKeepFirstError(tf, afs, aefs) ==
  LET t == IF tf = Null THEN [err |-> TypeError, value |-> NullResult] ELSE apply(tf)
      tcalls == IF tf = Null THEN <<>> ELSE <<Entry("target", tf)>>
      a == IF t.err = NoError THEN applyAll(afs, "after")
                              ELSE [calls |-> <<>>, err |-> NoError]
      e == applyAll(aefs, "after")
      tryErr == IF t.err # NoError THEN t.err ELSE a.err
      err == IF tryErr # NoError THEN tryErr ELSE e.err
  IN [calls |-> tcalls \o a.calls \o e.calls,
      err |-> err,
      r |-> IF err = NoError THEN t.value ELSE NullResult]

\* mutant: the result is never taken from the target
executeDropResult(tf, afs, aefs) ==
  LET t == IF tf = Null THEN [err |-> TypeError, value |-> NullResult] ELSE apply(tf)
      tcalls == IF tf = Null THEN <<>> ELSE <<Entry("target", tf)>>
      a == IF t.err = NoError THEN applyAll(afs, "after")
                              ELSE [calls |-> <<>>, err |-> NoError]
      e == applyAll(aefs, "after")
      tryErr == IF t.err # NoError THEN t.err ELSE a.err
  IN [calls |-> tcalls \o a.calls \o e.calls,
      err |-> IF e.err # NoError THEN e.err ELSE tryErr,
      r |-> NullResult]

\* executeTargetAndAfter(tf, afs, aefs):
\*   try { r = tf.apply(); afs... } finally { aefs... } return r;
\* tf = null makes tf.apply() a TypeError; an error thrown inside the
\* finally block replaces the one the try block was propagating.
executeTargetAndAfter(tf, afs, aefs) ==
  LET t == IF tf = Null THEN [err |-> TypeError, value |-> NullResult] ELSE apply(tf)
      tcalls == IF tf = Null THEN <<>> ELSE <<Entry("target", tf)>>
      a == IF t.err = NoError THEN applyAll(afs, "after")
                              ELSE [calls |-> <<>>, err |-> NoError]
      e == applyAll(aefs, "after")
      tryErr == IF t.err # NoError THEN t.err ELSE a.err
      err == IF e.err # NoError THEN e.err ELSE tryErr
  IN [calls |-> tcalls \o a.calls \o e.calls,
      err |-> err,
      r |-> IF err = NoError THEN t.value ELSE NullResult]

\* mutant: the closure works on the lists as they were when it was created
selfFuncsSnapshot(funcs, n) == SubSeq(funcs, 1, n)

\* `var self = this;` : the closure holds the Aspect, not its lists, so
\* self._beforeFuncs and self._afterFuncs are the lists at the time of the
\* call, whatever their length n was when the closure was created
selfFuncs(funcs, n) == funcs

\* what a run of the closure amounts to
Ran(cs, err, r) ==
  [calls |-> cs, raised |-> err, result |-> r, schedule |-> FALSE]
Scheduled(cs) ==
  [calls |-> cs, raised |-> NoError, result |-> NullResult, schedule |-> TRUE]

\* `this._asyncTarget` in the closure of src/aspect.js: `this` is the receiver
\* of the call; the global object has no _asyncTarget property
thisAsyncTarget(r) == r = "self" /\ _asyncTarget

\* the closure returned by getExecutableFunction, src/aspect.js
executableAspect(r, e) ==
  LET afterFuncsTuple == _splitFuncsEnsuredOrNot(selfFuncs(_afterFuncs, e.na))
      b == applyAll(selfFuncs(_beforeFuncs, e.nb), "before")
  IN IF b.err # NoError THEN Ran(b.calls, b.err, NullResult)
     ELSE IF thisAsyncTarget(r) THEN Scheduled(b.calls)
     ELSE LET x == executeTargetAndAfter(
                     _targetFunc, afterFuncsTuple[2], afterFuncsTuple[1])
          IN Ran(b.calls \o x.calls, x.err, x.r)

\* the closure returned by getExecutableFunction, src/unnamed/part_000
executablePart000(r, e) ==
  LET afterFuncsTuple == _splitFuncsEnsuredOrNot(selfFuncs(_afterFuncs, e.na))
      b == applyAll(selfFuncs(_beforeFuncs, e.nb), "before")
      c == IF b.err # NoError THEN applyAll(afterFuncsTuple[1], "after")
                              ELSE [calls |-> <<>>, err |-> NoError]
      pre == b.calls \o c.calls
  IN IF c.err # NoError THEN Ran(pre, c.err, NullResult)
     ELSE IF _asyncTarget THEN Scheduled(pre)
     ELSE LET x == executeTargetAndAfter(
                     _targetFunc, afterFuncsTuple[2], afterFuncsTuple[1])
          IN Ran(pre \o x.calls, x.err, x.r)

executable(r, e) ==
  IF variant = "aspect" THEN executableAspect(r, e) ELSE executablePart000(r, e)

\* mutant: the callback splits self._afterFuncs again when it runs
timeoutCallbackResplit(t) ==
  LET afterFuncsTuple == _splitFuncsEnsuredOrNot(_afterFuncs)
  IN executeTargetAndAfter(_targetFunc, afterFuncsTuple[2], afterFuncsTuple[1])

\* mutant: the callback passes the two groups in the wrong order
timeoutCallbackSwapped(t) ==
  executeTargetAndAfter(_targetFunc, t[1], t[2])

\* the function handed to window.setTimeout: it reads self._targetFunc when it
\* runs and uses the afterFuncsTuple of the call that scheduled it
timeoutCallback(t) ==
  executeTargetAndAfter(_targetFunc, t[2], t[1])

\* mutant: the before loop consumes the list (shift() instead of indexing)
selfAfterCallShift(c) == << <<>>, c[2], c[3], c[4] >>

\* the fields of the Aspect after a call of the closure: it assigns none of
\* them, and _splitFuncsEnsuredOrNot fills fresh arrays
selfAfterCall(c) == c

\* ------------------------------------------------------------------ target
\* mutant: a non-function argument clears the target
targetClearOnNonFunction(v, tf, a0, rest) ==
  IF v = "aspect" /\ tf # Null
    THEN [raised |-> AlreadySetError, targetFunc |-> tf, stored |-> FALSE]
  ELSE IF _isFunction(a0)
    THEN [raised |-> NoError, targetFunc |-> _FuncData(a0, rest, FALSE), stored |-> TRUE]
  ELSE [raised |-> NoError, targetFunc |-> Null, stored |-> FALSE]

\* Aspect.prototype.target called on a composer whose _targetFunc is tf with
\* arguments (a0, rest...): the error raised and the new _targetFunc.
\* src/aspect.js throws when a target is set, before looking at a0;
\* part_000 has no such guard.
target(v, tf, a0, rest) ==
  IF v = "aspect" /\ tf # Null
    THEN [raised |-> AlreadySetError, targetFunc |-> tf, stored |-> FALSE]
  ELSE IF _isFunction(a0)
    THEN [raised |-> NoError, targetFunc |-> _FuncData(a0, rest, FALSE), stored |-> TRUE]
  ELSE [raised |-> NoError, targetFunc |-> tf, stored |-> FALSE]

\* Aspect.prototype.asyncTarget, after `this._asyncTarget = true`:
\* src/aspect.js calls this.target(arguments), so target() sees the Arguments
\* object as its only argument; part_000 calls this.target.apply(this, args).
asyncTargetCall(v, tf, a0, rest) ==
  IF v = "aspect" THEN target(v, tf, ArgumentsObject, <<>>)
                  ELSE target(v, tf, a0, rest)

\* ------------------------------------------------------------------ actions
Init ==
  /\ variant \in Variants
  /\ _beforeFuncs = <<>>
  /\ _targetFunc = Null
  /\ _asyncTarget = FALSE
  /\ _afterFuncs = <<>>
  /\ timers = <<>>
  /\ targetBy = "none"
  /\ exe = NoExe
  /\ op = "new"
  /\ arg = NoArg
  /\ recv = "none"
  /\ raised = NoError
  /\ calls = <<>>
  /\ result = NullResult
  /\ deferred = FALSE

Registered == Len(_beforeFuncs) + Len(_afterFuncs)

\* the outcome of a registration method: it invokes no user function and
\* returns `this`
RegistrationOutcome(name, in, err) ==
  /\ op' = name
  /\ arg' = in
  /\ recv' = "none"
  /\ raised' = err
  /\ calls' = <<>>
  /\ result' = NullResult
  /\ deferred' = FALSE

Before(in) ==
  /\ _isFunction(in[1]) => Registered < MaxFuncs
  /\ _beforeFuncs' = IF _isFunction(in[1])
                       THEN Append(_beforeFuncs, _FuncData(in[1], in[2], FALSE))
                       ELSE _beforeFuncs
  /\ RegistrationOutcome("before", in, NoError)
  /\ UNCHANGED <<variant, _targetFunc, _asyncTarget, _afterFuncs, timers, targetBy, exe>>

Target(in) ==
  LET t == target(variant, _targetFunc, in[1], in[2])
  IN /\ _targetFunc' = t.targetFunc
     /\ targetBy' = IF t.stored THEN "target" ELSE targetBy
     /\ RegistrationOutcome("target", in, t.raised)
     /\ UNCHANGED <<variant, _beforeFuncs, _asyncTarget, _afterFuncs, timers, exe>>

AsyncTarget(in) ==
  LET t == asyncTargetCall(variant, _targetFunc, in[1], in[2])
  IN /\ _asyncTarget' = TRUE
     /\ _targetFunc' = t.targetFunc
     /\ targetBy' = IF t.stored THEN "asyncTarget" ELSE targetBy
     /\ RegistrationOutcome("asyncTarget", in, t.raised)
     /\ UNCHANGED <<variant, _beforeFuncs, _afterFuncs, timers, exe>>

After(in) ==
  /\ _isFunction(in[1]) => Registered < MaxFuncs
  /\ _afterFuncs' = IF _isFunction(in[1])
                      THEN Append(_afterFuncs, _FuncData(in[1], in[2], FALSE))
                      ELSE _afterFuncs
  /\ RegistrationOutcome("after", in, NoError)
  /\ UNCHANGED <<variant, _beforeFuncs, _targetFunc, _asyncTarget, timers, targetBy, exe>>

AfterEnsure(in) ==
  /\ _isFunction(in[1]) => Registered < MaxFuncs
  /\ _afterFuncs' = IF _isFunction(in[1])
                      THEN Append(_afterFuncs, _FuncData(in[1], in[2], TRUE))
                      ELSE _afterFuncs
  /\ RegistrationOutcome("afterEnsure", in, NoError)
  /\ UNCHANGED <<variant, _beforeFuncs, _targetFunc, _asyncTarget, timers, targetBy, exe>>

\* Aspect.prototype.getExecutableFunction: the caller keeps the closure
GetExecutableFunction ==
  /\ exe' = ExeNow
  /\ RegistrationOutcome("getExecutableFunction", NoArg, NoError)
  /\ UNCHANGED <<variant, composer, timers, targetBy>>

\* one call, on receiver r, of the closure e returned by getExecutableFunction
Call(name, r, e) ==
  LET x == executable(r, e)
      after == selfAfterCall(composer)
  IN /\ x.schedule => Len(timers) < MaxTimers
     /\ timers' = IF x.schedule
                    THEN Append(timers,
                           _splitFuncsEnsuredOrNot(selfFuncs(_afterFuncs, e.na)))
                    ELSE timers
     /\ op' = name
     /\ arg' = NoArg
     /\ recv' = r
     /\ raised' = x.raised
     /\ calls' = x.calls
     /\ result' = x.result
     /\ deferred' = x.schedule
     /\ _beforeFuncs' = after[1]
     /\ _targetFunc' = after[2]
     /\ _asyncTarget' = after[3]
     /\ _afterFuncs' = after[4]
     /\ UNCHANGED <<variant, targetBy, exe>>

\* Aspect.prototype.execute: (this.getExecutableFunction())()
Execute == Call("execute", "global", ExeNow)

\* getExecutableFunction() and a call of the closure as a method of the Aspect
InvokeOnSelf == Call("invoke", "self", ExeNow)

\* a later call of the kept closure, as a plain function (`this` is the global
\* object) or as a method of the Aspect
InvokeKept(r) == exe # NoExe /\ Call("invokeKept", r, exe)

\* the event loop runs the oldest callback handed to setTimeout:
\* executeTargetAndAfter(self._targetFunc, afterFuncsTuple[1], afterFuncsTuple[0])
TimerFire ==
  /\ timers # <<>>
  /\ LET x == timeoutCallback(Head(timers))
     IN /\ op' = "timer"
        /\ arg' = NoArg
        /\ recv' = "none"
        /\ raised' = x.err
        /\ calls' = x.calls
        /\ result' = x.r
        /\ deferred' = FALSE
  /\ timers' = Tail(timers)
  /\ UNCHANGED <<variant, composer, targetBy, exe>>

\* the inputs that register something
FnInputs == {in \in Inputs : _isFunction(in[1])}

Next ==
  \/ \E in \in Inputs : Before(in)
  \/ \E in \in Inputs : Target(in)
  \/ \E in \in Inputs : AsyncTarget(in)
  \/ \E in \in Inputs : After(in)
  \/ \E in \in Inputs : AfterEnsure(in)
  \/ Execute
  \/ InvokeOnSelf
  \/ TimerFire

Spec == Init /\ [][Next]_vars

\* the same composer when its caller keeps a closure and calls it later
NextCompile ==
  \/ \E in \in FnInputs : Before(in)
  \/ \E in \in FnInputs : Target(in)
  \/ \E in \in FnInputs : AsyncTarget(in)
  \/ \E in \in FnInputs : After(in)
  \/ \E in \in FnInputs : AfterEnsure(in)
  \/ GetExecutableFunction
  \/ \E r \in Receivers : InvokeKept(r)
  \/ TimerFire

SpecCompile == Init /\ [][NextCompile]_vars

\* the methods called with functions only
NextFn ==
  \/ \E in \in FnInputs : Before(in)
  \/ \E in \in FnInputs : Target(in)
  \/ \E in \in FnInputs : AsyncTarget(in)
  \/ \E in \in FnInputs : After(in)
  \/ \E in \in FnInputs : AfterEnsure(in)
  \/ Execute
  \/ InvokeOnSelf
  \/ TimerFire

\* the event loop eventually runs every pending callback
FairSpec == Init /\ [][NextFn]_vars /\ WF_vars(TimerFire)

\* ------------------------------------------------------------------ claims
\* vocabulary of the claims
Executed == op \in {"execute", "invoke"}

Throws(c) == c.func \in Throwing

NoneThrows(fs) == \A i \in 1..Len(fs) : ~Throws(fs[i])

Entries(phase, fs) == [i \in 1..Len(fs) |-> Entry(phase, fs[i])]

Ensured(fs) == LET T(c) == c.ensured IN SelectSeq(fs, T)

NonEnsured(fs) == LET T(c) == ~c.ensured IN SelectSeq(fs, T)

\* the index of the first throwing function of fs, or 0
FirstThrow(fs) ==
  IF NoneThrows(fs) THEN 0
  ELSE CHOOSE i \in 1..Len(fs) : Throws(fs[i]) /\ \A j \in 1..(i-1) : ~Throws(fs[j])

\* the functions of fs a loop over fs invokes: all up to the first that throws
UpToFirstThrow(fs) ==
  IF FirstThrow(fs) = 0 THEN fs ELSE SubSeq(fs, 1, FirstThrow(fs))

\* the position of the target's invocation in calls, or 0
TargetAt ==
  IF \E i \in 1..Len(calls) : calls[i].phase = "target"
    THEN CHOOSE i \in 1..Len(calls) : calls[i].phase = "target"
    ELSE 0

AfterTarget == SubSeq(calls, TargetAt + 1, Len(calls))

InvokedAfter(cs) == LET T(e) == e.phase = "after" IN SelectSeq(cs, T)

InvokedEnsured(cs) ==
  LET T(e) == e.phase = "after" /\ e.call.ensured IN SelectSeq(cs, T)

InvokedNonEnsured(cs) ==
  LET T(e) == e.phase = "after" /\ ~e.call.ensured IN SelectSeq(cs, T)

\* C1: with a target set, no ensured after function and no function that
\* throws, a non-deferred call of the executable invokes the before functions
\* in registration order, then the target, then the after functions in
\* registration order, and returns what the target returned.
C1_OrderAndResult ==
  ( /\ Executed /\ ~deferred
    /\ _targetFunc # Null
    /\ Ensured(_afterFuncs) = <<>>
    /\ NoneThrows(_beforeFuncs) /\ ~Throws(_targetFunc) /\ NoneThrows(_afterFuncs) )
  => /\ calls = Entries("before", _beforeFuncs)
                  \o <<Entry("target", _targetFunc)>>
                  \o Entries("after", _afterFuncs)
     /\ raised = NoError
     /\ result = [of |-> _targetFunc.func, with |-> _targetFunc.params]

C1_Witness ==
  /\ op = "execute" /\ ~deferred
  /\ _targetFunc # Null /\ ~Throws(_targetFunc) /\ _targetFunc.params = <<1>>
  /\ Len(_beforeFuncs) = 1 /\ Len(_afterFuncs) = 1
  /\ Ensured(_afterFuncs) = <<>>
  /\ NoneThrows(_beforeFuncs) /\ NoneThrows(_afterFuncs)
  /\ Len(calls) = 3

\* C2: in a non-deferred execution that reaches the target, every ensured
\* after function is invoked after the target, whether the target returned or
\* threw, and when the target threw the caller gets an error.
C2_EnsuredAlwaysRun ==
  (Executed /\ ~deferred /\ TargetAt # 0)
  => /\ InvokedEnsured(AfterTarget) = Entries("after", Ensured(_afterFuncs))
     /\ Throws(_targetFunc) => raised # NoError

\* C3: a call of target() on a composer that has a target raises the
\* already-set error, and the stored target never changes once set.
C3_SecondTargetRejected ==
  [][ /\ (_targetFunc # Null => _targetFunc' = _targetFunc)
      /\ (op' = "target" /\ _isFunction(arg'[1]) /\ _targetFunc # Null)
           => raised' = AlreadySetError ]_vars

\* C4: when the target was stored by asyncTarget, execute() returns before
\* the target or any after function has been invoked.
C4_NothingRunsBeforeReturn ==
  (op = "execute" /\ targetBy = "asyncTarget")
  => /\ deferred
     /\ TargetAt = 0
     /\ InvokedAfter(calls) = <<>>

\* C5 as stated: before, target and after called with a non-function leave the
\* composer unchanged and throw nothing, in every composer state.
C5_NonFunctionSilentNoOp ==
  [][ (op' \in {"before", "target", "after"} /\ ~_isFunction(arg'[1]))
        => (UNCHANGED composer /\ raised' = NoError) ]_vars

\* C5 amended: before, target and after called with a non-function leave the
\* composer unchanged in every composer state; nothing is thrown, except by
\* target() of src/aspect.js on a composer that already has a target, which
\* throws the already-set error before it looks at its argument.
C5_NonFunctionNoChange ==
  [][ (op' \in {"before", "target", "after"} /\ ~_isFunction(arg'[1]))
        => /\ UNCHANGED composer
           /\ raised' = IF op' = "target" /\ variant = "aspect" /\ _targetFunc # Null
                          THEN AlreadySetError ELSE NoError ]_vars

C5_Witness ==
  /\ op = "target" /\ ~_isFunction(arg[1])
  /\ _targetFunc # Null
  /\ raised = AlreadySetError
  /\ Registered > 0

C7_NoTargetIsNoOp ==
  (Executed /\ _targetFunc = Null)
  => /\ raised # TypeError
     /\ (NoneThrows(_beforeFuncs) /\ NoneThrows(_afterFuncs))
          => (raised = NoError /\ result = NullResult)

\* C8: asyncTarget(fn, args...) on a composer without a target stores fn bound
\* to args, as target(fn, args...) would, and sets the async flag.
C8_AsyncTargetStoresTarget ==
  [][ (op' = "asyncTarget" /\ _isFunction(arg'[1]) /\ _targetFunc = Null)
        => /\ _targetFunc' = _FuncData(arg'[1], arg'[2], FALSE)
           /\ _targetFunc' = target(variant, _targetFunc, arg'[1], arg'[2]).targetFunc
           /\ _asyncTarget' ]_vars

\* C9: when a before function throws (on a composer with a target), its error
\* reaches the caller at once: no later before function, no target and no after
\* function is invoked.
C9_BeforeFailureAborts ==
  (Executed /\ ~NoneThrows(_beforeFuncs) /\ _targetFunc # Null)
  => /\ calls = Entries("before", UpToFirstThrow(_beforeFuncs))
     /\ raised = Thrown(_beforeFuncs[FirstThrow(_beforeFuncs)])
     /\ ~deferred

\* C10: in a non-deferred execution no non-ensured after function is invoked
\* when the target throws (or is never reached), and otherwise the non-ensured
\* after functions are invoked in order up to the first one that throws.
C10_NonEnsuredSkipped ==
  (Executed /\ ~deferred)
  => InvokedNonEnsured(calls) =
       IF TargetAt # 0 /\ ~Throws(_targetFunc)
         THEN Entries("after", UpToFirstThrow(NonEnsured(_afterFuncs)))
         ELSE <<>>

C10_Witness ==
  /\ op = "execute" /\ ~deferred
  /\ TargetAt # 0 /\ Throws(_targetFunc)
  /\ Len(_afterFuncs) = 2
  /\ ~_afterFuncs[1].ensured /\ _afterFuncs[2].ensured
  /\ calls = <<Entry("target", _targetFunc), Entry("after", _afterFuncs[2])>>
  /\ raised = Thrown(_targetFunc)

\* C11: in an execution that reaches the target, an ensured after function is
\* invoked even when an after function registered before it, ensured or not,
\* has thrown.
C11_EnsuredDespiteEarlierFailure ==
  (Executed /\ ~deferred /\ TargetAt # 0)
  => \A i \in 1..Len(_afterFuncs) :
       ( /\ _afterFuncs[i].ensured
         /\ \E j \in 1..(i-1) : Throws(_afterFuncs[j]) )
       => \E k \in 1..Len(AfterTarget) :
            AfterTarget[k] = Entry("after", _afterFuncs[i])

\* C12: on a composer marked async, execute() returns null and raises nothing
\* that the target or an after function threw.
C12_DeferredCallerSeesNothing ==
  (op = "execute" /\ _asyncTarget)
  => /\ result = NullResult
     /\ raised # TypeError
     /\ (raised.type = "thrown"
           => /\ ~raised.by.ensured
              /\ \E i \in 1..Len(_beforeFuncs) : raised = Thrown(_beforeFuncs[i]))
     /\ TargetAt = 0
     /\ InvokedAfter(calls) = <<>>

\* C13: the closure returned by getExecutableFunction works on the composer
\* as it is when the closure is called: before, after and ensured after
\* functions registered since the closure was created are run by the call, in
\* their registration position, and the after list is split at each call.
C13_ClosureReadsComposerAtCall ==
  (op = "invokeKept" /\ NoneThrows(_beforeFuncs))
  => IF deferred
       THEN /\ calls = Entries("before", _beforeFuncs)
            /\ timers # <<>>
            /\ timers[Len(timers)] = <<Ensured(_afterFuncs), NonEnsured(_afterFuncs)>>
       ELSE (_targetFunc # Null /\ ~Throws(_targetFunc) /\ NoneThrows(_afterFuncs))
            => calls = Entries("before", _beforeFuncs)
                         \o <<Entry("target", _targetFunc)>>
                         \o Entries("after", NonEnsured(_afterFuncs))
                         \o Entries("after", Ensured(_afterFuncs))

C13_Witness ==
  /\ op = "invokeKept" /\ ~deferred
  /\ exe.nb = 0 /\ exe.na = 0
  /\ Len(_beforeFuncs) = 1 /\ Len(_afterFuncs) = 1
  /\ _targetFunc # Null /\ ~Throws(_targetFunc)
  /\ NoneThrows(_beforeFuncs) /\ NoneThrows(_afterFuncs)
  /\ calls = << Entry("before", _beforeFuncs[1]), Entry("target", _targetFunc),
                Entry("after", _afterFuncs[1]) >>

\* C14: a scheduled callback is never withdrawn: the list of pending callbacks
\* only grows at its end or loses its head to the event loop; under a fair
\* event loop a pending callback leads to a run of a callback; and the run
\* invokes the target, then the non-ensured after functions and then the
\* ensured ones of the call that scheduled it, each loop up to its first throw,
\* as the synchronous branch does.
C14_DeferredRunsLikeSync ==
  /\ [][ timers # <<>>
           => \/ timers' = timers
              \/ timers' = Tail(timers) /\ op' = "timer"
              \/ Len(timers') = Len(timers) + 1
                   /\ SubSeq(timers', 1, Len(timers)) = timers ]_vars
  /\ [][ (op' = "timer" /\ timers # <<>> /\ timers' = Tail(timers) /\ _targetFunc # Null)
           => calls' = <<Entry("target", _targetFunc)>>
                 \o (IF Throws(_targetFunc) THEN <<>>
                     ELSE Entries("after", UpToFirstThrow(Head(timers)[2])))
                 \o Entries("after", UpToFirstThrow(Head(timers)[1])) ]_vars
  /\ (timers # <<>> /\ op # "timer") ~> (op = "timer")

C14_Witness ==
  /\ op = "timer"
  /\ _targetFunc # Null
  /\ Len(_afterFuncs) = 2 /\ _afterFuncs[1].ensured /\ ~_afterFuncs[2].ensured
  /\ calls = << Entry("target", _targetFunc),
                Entry("after", _afterFuncs[2]), Entry("after", _afterFuncs[1]) >>

\* how often e occurs in cs
Count(cs, e) == Cardinality({i \in 1..Len(cs) : cs[i] = e})

\* one entry per registered function, by the list it is registered in
RegisteredEntries ==
  Entries("before", _beforeFuncs)
    \o (IF _targetFunc = Null THEN <<>> ELSE <<Entry("target", _targetFunc)>>)
    \o Entries("after", _afterFuncs)

\* C15: one call of the executable invokes no registered function more than
\* once, on any path.
C15_AtMostOncePerExecution ==
  Executed
  => \A i \in 1..Len(calls) :
       Count(calls, calls[i]) <= Count(RegisteredEntries, calls[i])

\* C16: the async flag is set only while the stored target was stored by
\* asyncTarget, and a target stored by target() is never run deferred.
C16_FlagFollowsAsyncTarget ==
  /\ _asyncTarget => (_targetFunc # Null /\ targetBy = "asyncTarget")
  /\ (Executed /\ deferred) => targetBy = "asyncTarget"

WouldRun == timeoutCallback(Head(timers)).calls

C19_TargetErrorReachesCaller ==
  (Executed /\ ~deferred /\ TargetAt # 0 /\ Throws(_targetFunc))
  => raised = Thrown(_targetFunc)

\* C19 amended: when the target throws, the caller of a non-deferred execution
\* gets the target's error unless an ensured after function throws; then it
\* gets the error of the first ensured after function that throws.
C19_LastErrorReachesCaller ==
  (Executed /\ ~deferred /\ TargetAt # 0 /\ Throws(_targetFunc))
  => raised = IF NoneThrows(Ensured(_afterFuncs))
                THEN Thrown(_targetFunc)
                ELSE Thrown(Ensured(_afterFuncs)[FirstThrow(Ensured(_afterFuncs))])

C19_Witness ==
  /\ op = "execute" /\ ~deferred
  /\ TargetAt # 0 /\ Throws(_targetFunc)
  /\ Len(_afterFuncs) = 1 /\ _afterFuncs[1].ensured /\ Throws(_afterFuncs[1])
  /\ raised = Thrown(_afterFuncs[1])
  /\ raised # Thrown(_targetFunc)

====
